---- MODULE Spec2Model ----
(***************************************************************************)
(* Meta-ETL: an hourly batch job that pulls campaigns, activity history,   *)
(* regional insights, creatives, ad sets, ads and hourly ad insights from  *)
(* the Graph API and upserts them into a PostgreSQL warehouse              *)
(* (src/MetaETL.py), triggered over HTTP (src/httpmetaetl/function_app.py).*)
(*                                                                         *)
(* Python values are tagged records [t, s, n]: t is the Python type, s the *)
(* characters of a str (a sequence of one-character tokens; the token "D"  *)
(* stands for a well-formed 'YYYY-MM-DDTHH:MM:SS' body and an identifier   *)
(* is a single token), n the number of an int/float, and for a timestamp   *)
(* or date string the instant it denotes.                                  *)
(***************************************************************************)
EXTENDS Integers, Sequences, FiniteSets, TLC

\* ------------------------------------------------------------------ bounds
MaxRuns == 2     \* runs of the job that are explored
MaxClock == 2    \* last clock tick explored (two ticks per hour)
MaxBatch == 3    \* longest list one upstream response carries

\* ------------------------------------------------------------ Python values
None == [t |-> "none", s |-> <<>>, n |-> 0]
PyStr(chars) == [t |-> "str", s |-> chars, n |-> 0]
Id(x) == [t |-> "str", s |-> <<x>>, n |-> 0]
PyInt(k) == [t |-> "int", s |-> <<>>, n |-> k]
PyFloat(k) == [t |-> "float", s |-> <<>>, n |-> k]

\* the clock counts half hours; four ticks make a day
Hour(t) == t \div 2
Day(t) == t \div 4

\* datetime.isoformat() of an IST instant truncated to the hour
IsoHour(h) == [t |-> "str", s |-> <<"D", "+", "0", "5", ":", "3", "0">>, n |-> h]
\* date.isoformat()
IsoDate(d) == [t |-> "str", s |-> <<"d">>, n |-> d]

Digits == {"0", "1", "2", "3", "4", "5", "6", "7", "8", "9"}

EndsWith(chars, suffix) ==
    /\ Len(chars) >= Len(suffix)
    /\ SubSeq(chars, Len(chars) - Len(suffix) + 1, Len(chars)) = suffix

DropLast(chars, k) == SubSeq(chars, 1, Len(chars) - k)

\* datetime.fromisoformat accepts a body alone or a body with a +HH:MM offset
FromIsoFormatOk(chars) ==
    \/ chars = <<"D">>
    \/ /\ Len(chars) = 7
       /\ chars[1] = "D"
       /\ chars[2] \in {"+", "-"}
       /\ chars[3] \in Digits /\ chars[4] \in Digits
       /\ chars[5] = ":"
       /\ chars[6] \in Digits /\ chars[7] \in Digits

\* ------------------------------------------------------------------ schemas
Field(type, required, nullable, format) ==
    [type |-> type, required |-> required, nullable |-> nullable, format |-> format]

CampaignFields ==
    <<"id", "name", "status", "objective", "buying_type",
      "special_ad_categories", "start_time", "end_time">>

CAMPAIGN_SCHEMA ==
    [f \in {CampaignFields[i] : i \in 1..Len(CampaignFields)} |->
        CASE f \in {"id", "name", "status"} -> Field("string", TRUE, FALSE, "")
          [] f \in {"objective", "buying_type"} -> Field("string", FALSE, TRUE, "")
          [] f = "special_ad_categories" -> Field("array", FALSE, TRUE, "")
          [] OTHER -> Field("string", FALSE, TRUE, "datetime")]

IntMetrics ==
    <<"clicks", "impressions", "reach", "page_engagement", "post_engagement",
      "video_view", "landing_page_view", "purchase", "add_to_cart", "link_click",
      "post_reaction", "outbound_click", "video_p25_watched",
      "video_thruplay_watched">>

NumberMetrics ==
    <<"spend", "purchase_value", "view_content_value", "add_to_cart_value",
      "ctr", "cpp">>

InsightFields ==
    <<"snapshot_hour", "ad_id", "adset_id", "campaign_id", "account_id",
      "date_start", "date_stop">> \o IntMetrics \o NumberMetrics

Range(seq) == {seq[i] : i \in 1..Len(seq)}

AD_INSIGHTS_HOURLY_SNAPSHOT_SCHEMA ==
    [f \in Range(InsightFields) |->
        CASE f = "snapshot_hour" -> Field("string", TRUE, FALSE, "datetime")
          [] f \in {"ad_id", "adset_id", "campaign_id", "account_id"} ->
                Field("string", TRUE, FALSE, "")
          [] f \in {"date_start", "date_stop"} -> Field("string", TRUE, FALSE, "date")
          [] f \in Range(IntMetrics) -> Field("integer", FALSE, TRUE, "")
          [] OTHER -> Field("number", FALSE, TRUE, "")]

\* --------------------------------------------------------- validate_schema
\* a validator that holds a field whose value is None to be missing too
RECURSIVE RequiredErrorsOfFalsy(_, _, _)
RequiredErrorsOfFalsy(data, schema, fields) ==
    IF fields = <<>> THEN <<>>
    ELSE LET f == Head(fields)
             rest == RequiredErrorsOfFalsy(data, schema, Tail(fields))
         IN IF schema[f].required /\ (f \notin DOMAIN data \/ data[f].t = "none")
            THEN <<f>> \o rest ELSE rest

\* the 'required' list: one entry per required field absent from the record
RECURSIVE RequiredErrors(_, _, _)
RequiredErrors(data, schema, fields) ==
    IF fields = <<>> THEN <<>>
    ELSE LET f == Head(fields)
             rest == RequiredErrors(data, schema, Tail(fields))
         IN IF schema[f].required /\ f \notin DOMAIN data THEN <<f>> \o rest ELSE rest

\* a type check that lets every None through, nullable or not
TypeErrorOfNullsExempt(value, fs) ==
    IF value.t = "none" THEN FALSE
    ELSE CASE fs.type = "string" -> value.t \notin {"str", "date", "datetime"}
           [] fs.type = "array" -> value.t # "list"
           [] OTHER -> FALSE

\* a type check that knows strings only
TypeErrorOfStrict(value, fs) ==
    IF value.t = "none" /\ fs.nullable THEN FALSE
    ELSE CASE fs.type = "string" -> value.t # "str"
           [] fs.type = "array" -> value.t # "list"
           [] OTHER -> FALSE

\* isinstance(value, date) holds of a date and of a datetime
TypeErrorOf(value, fs) ==
    IF value.t = "none" /\ fs.nullable THEN FALSE
    ELSE CASE fs.type = "string" -> value.t \notin {"str", "date", "datetime"}
           [] fs.type = "array" -> value.t # "list"
           [] OTHER -> FALSE

FormatErrorOf(value, fs) ==
    IF value.t = "none" /\ fs.nullable THEN FALSE
    ELSE /\ fs.type = "string" /\ value.t = "str" /\ fs.format = "datetime"
         /\ LET v1 == IF EndsWith(value.s, <<"Z">>)
                      THEN DropLast(value.s, 1) \o <<"+", "0", "0", ":", "0", "0">>
                      ELSE value.s
                v2 == IF EndsWith(v1, <<"+", "0", "0", "0", "0">>)
                      THEN DropLast(v1, 5) \o <<"+", "0", "0", ":", "0", "0">>
                      ELSE v1
            IN ~FromIsoFormatOk(v2)

RECURSIVE TypeErrors(_, _, _)
TypeErrors(data, schema, fields) ==
    IF fields = <<>> THEN <<>>
    ELSE LET f == Head(fields)
             rest == TypeErrors(data, schema, Tail(fields))
         IN IF f \in DOMAIN data /\ f \in DOMAIN schema /\ TypeErrorOf(data[f], schema[f])
            THEN <<f>> \o rest ELSE rest

RECURSIVE FormatErrors(_, _, _)
FormatErrors(data, schema, fields) ==
    IF fields = <<>> THEN <<>>
    ELSE LET f == Head(fields)
             rest == FormatErrors(data, schema, Tail(fields))
         IN IF f \in DOMAIN data /\ f \in DOMAIN schema /\ FormatErrorOf(data[f], schema[f])
            THEN <<f>> \o rest ELSE rest

\* errors, by category; the record is valid when every list is empty
validate_schema(data, schema, fields) ==
    [required |-> RequiredErrors(data, schema, fields),
     type |-> TypeErrors(data, schema, fields),
     format |-> FormatErrors(data, schema, fields)]

HasErrors(errors) ==
    errors.required # <<>> \/ errors.type # <<>> \/ errors.format # <<>>

\* ---------------------------------------------------------------- warehouse
\* The tables of CREATE_TABLES_SQL, each a set of rows. Columns that every
\* statement inserts and overwrites exactly like a listed payload column are
\* folded into it: dim_campaign.campaign_name stands for objective ..
\* lifetime_budget, updated_at and fetched_at too, adsets.name for the
\* descriptive columns and fetched_at, ads.name for targeting, insights,
\* raw_data and fetched_at, and so on. The serial id columns are left out.
VARIABLES
    dim_campaign,
    ad_account_activity_history,
    ad_insights_regionwise,
    ad_creatives,
    adsets,
    ads,
    ad_insights_hourly_snapshots

Tables == <<"dim_campaign", "ad_account_activity_history", "ad_insights_regionwise",
            "ad_creatives", "adsets", "ads", "ad_insights_hourly_snapshots">>

\* PRIMARY KEY / UNIQUE columns of each table, the ON CONFLICT target
KeyOf(tbl, r) ==
    CASE tbl = "dim_campaign" -> <<r.campaign_id>>
      [] tbl = "ad_account_activity_history" ->
            <<r.object_id, r.event_type, r.event_time, r.hour>>
      [] tbl = "ad_insights_regionwise" ->
            <<r.ad_id, r.date_start, r.date_stop, r.region, r.hour>>
      [] tbl = "ad_creatives" -> <<r.id, r.hour>>
      [] tbl = "adsets" -> <<r.id, r.hour>>
      [] tbl = "ads" -> <<r.id, r.hour>>
      [] tbl = "ad_insights_hourly_snapshots" ->
            <<r.snapshot_hour, r.ad_id, r.date_start, r.date_stop>>

\* ON CONFLICT ... DO UPDATE SET: the existing row after the update, given the
\* proposed row (EXCLUDED) and the database clock (NOW())
OnConflict(tbl, old, new, now) ==
    CASE tbl = "dim_campaign" ->
            [old EXCEPT !.campaign_name = new.campaign_name, !.status = new.status,
                        !.hour = new.hour]
      [] tbl = "ad_account_activity_history" ->
            [old EXCEPT !.object_name = new.object_name]
      [] tbl = "ad_insights_regionwise" ->
            [old EXCEPT !.impressions = new.impressions]
      [] tbl = "ad_creatives" ->
            [old EXCEPT !.name = new.name]
      [] tbl = "adsets" ->
            [old EXCEPT !.name = new.name, !.campaign_id = new.campaign_id]
      [] tbl = "ads" ->
            [old EXCEPT !.name = new.name, !.adset_id = new.adset_id]
      [] tbl = "ad_insights_hourly_snapshots" ->
            [old EXCEPT !.metrics = new.metrics, !.created_at = now]

\* the key columns declared without NOT NULL that a row leaves NULL
NullKeyColumns(tbl, r) ==
    CASE tbl = "ad_account_activity_history" ->
            {c \in {"object_id", "event_type", "event_time"} : r[c] = None}
      [] tbl = "ad_insights_regionwise" ->
            {c \in {"ad_id", "date_start", "date_stop", "region"} : r[c] = None}
      [] OTHER -> {}

\* a unique index holds NULLs to be distinct: a proposed row with a NULL key
\* column conflicts with no row
Conflicts(tbl, old, new) ==
    /\ KeyOf(tbl, old) = KeyOf(tbl, new)
    /\ NullKeyColumns(tbl, new) = {}

\* INSERT ... ON CONFLICT of one row
UpsertRow(tbl, T, new, now) ==
    IF \E old \in T : Conflicts(tbl, old, new)
    THEN {IF Conflicts(tbl, old, new) THEN OnConflict(tbl, old, new, now) ELSE old
            : old \in T}
    ELSE T \cup {new}

\* one INSERT statement over a list of rows
RECURSIVE Statement(_, _, _, _)
Statement(tbl, T, rows, now) ==
    IF rows = <<>> THEN T
    ELSE Statement(tbl, UpsertRow(tbl, T, Head(rows), now), Tail(rows), now)

\* psycopg2's execute_values sends the rows in pages of page_size rows, one
\* statement per page (the calls pass no page_size; the library's default of
\* 100 is scaled down to 2 here)
page_size == 2

NumPages(rows) == (Len(rows) + page_size - 1) \div page_size

Page(rows, k) ==
    SubSeq(rows, (k - 1) * page_size + 1,
           IF k * page_size < Len(rows) THEN k * page_size ELSE Len(rows))

RECURSIVE RunPages(_, _, _, _, _)
RunPages(tbl, T, rows, upto, now) ==
    IF upto = 0 THEN T
    ELSE Statement(tbl, RunPages(tbl, T, rows, upto - 1, now), Page(rows, upto), now)

\* a bulk write that empties the table before it inserts
execute_values_replacing(tbl, T, rows, failAt, now) ==
    IF failAt = 0
    THEN [table |-> RunPages(tbl, {}, rows, NumPages(rows), now), raised |-> FALSE]
    ELSE [table |-> RunPages(tbl, {}, rows, failAt - 1, now), raised |-> TRUE]

\* execute_values on a connection in autocommit mode: every page's statement
\* is committed as it completes. failAt = 0: no statement fails; failAt = k:
\* the k-th statement raises (and is undone by the server), nothing later runs.
execute_values(tbl, T, rows, failAt, now) ==
    IF failAt = 0
    THEN [table |-> RunPages(tbl, T, rows, NumPages(rows), now), raised |-> FALSE]
    ELSE [table |-> RunPages(tbl, T, rows, failAt - 1, now), raised |-> TRUE]

\* upsert_activity_history .. upsert_ads: an empty list returns at once
upsert(tbl, T, rows, failAt, now) ==
    IF rows = <<>> THEN [table |-> T, raised |-> FALSE]
    ELSE execute_values(tbl, T, rows, failAt, now)

\* where a statement over these rows can fail
FailPoints(rows) == 0..NumPages(rows)

\* ------------------------------------------------------------- upstream API
\* What the ad account holds upstream is drawn from small sets. account is the
\* set of endpoints that have data in this run of the model; the others
\* answer with an empty list.
VARIABLES account

Profiles ==
    {{"campaigns", "adsets", "one_ad"}, {"ads", "insights"},
     {"activity"}, {"regionwise"}, {"adcreatives"}}

CampaignIds == <<"c1">>
\* what an ad set names as its campaign: a campaign of the account, one the
\* account does not list, or nothing
Parents == {"c1", "c9", "absent"}
AdsetIds == <<"s1", "s2">>
AdIds == <<"a1", "a2">>
CreativeIds == <<"cr1", "cr2", "cr3">>

\* the upstream content is revised between runs: run r reads revision r of
\* every descriptive field and metric
Revision(r) == [t |-> "str", s |-> <<"r">>, n |-> r]

\* the sublists of a list: what one response can carry of it, in its order
RECURSIVE Pick(_, _)
Pick(list, I) ==
    IF list = <<>> THEN <<>>
    ELSE (IF 1 \in I THEN <<Head(list)>> ELSE <<>>)
         \o Pick(Tail(list), {i - 1 : i \in I \ {1}})

SubLists(list) ==
    {Pick(list, I) : I \in {J \in SUBSET (1..Len(list)) : Cardinality(J) <= MaxBatch}}

\* outcome of one GET: a 2xx answer, an error status (raise_for_status raises
\* HTTPError), an exception out of requests.get, or the backoff wrapper's None
ErrorKinds == {"bad_status", "conn_error", "no_result"}

Failure(kind) == [kind |-> kind, data |-> <<>>]
Answer(data) == [kind |-> "ok", data |-> data]

Has(endpoint) == endpoint \in account

CampaignItem(id, v, complete) ==
    IF complete THEN [id |-> Id(id), name |-> v, status |-> Id("ACTIVE")]
    ELSE [id |-> Id(id), name |-> v]

CampaignResponses(v) ==
    {Failure(k) : k \in ErrorKinds} \cup
    {Answer([i \in 1..Len(l) |-> CampaignItem(l[i], v, l[i] \notin bad)]) :
        l \in (IF Has("campaigns") THEN SubLists(CampaignIds) ELSE {<<>>}),
        bad \in {{}, {"c1"}}}

\* an activity of an object, or one that names no object
ActivityItem(v, named) ==
    IF named
    THEN [object_id |-> Id("o1"), object_name |-> v, event_type |-> Id("UPDATE"),
          event_time |-> PyStr(<<"D", "+", "0", "5", "3", "0">>)]
    ELSE [object_name |-> v, event_type |-> Id("UPDATE"),
          event_time |-> PyStr(<<"D", "+", "0", "5", "3", "0">>)]

ActivityResponses(v) ==
    {Failure(k) : k \in ErrorKinds} \cup
    {Answer(d) : d \in (IF Has("activity")
                        THEN {<<>>} \cup {<<ActivityItem(v, n)>> : n \in BOOLEAN}
                        ELSE {<<>>})}

RegionItem(v, day) ==
    [ad_id |-> Id("a1"), impressions |-> v, date_start |-> IsoDate(day),
     date_stop |-> IsoDate(day), region |-> Id("Goa")]

RegionResponses(v, day) ==
    {Failure(k) : k \in ErrorKinds} \cup
    {Answer(d) : d \in (IF Has("regionwise") THEN {<<>>, <<RegionItem(v, day)>>}
                        ELSE {<<>>})}

\* a paged listing: the pages of the full list, and the request that fails
\* (at = 0: none does)
Splits(l) ==
    {<<l>>} \cup {<<SubSeq(l, 1, k), SubSeq(l, k + 1, Len(l))>> : k \in 1..(Len(l) - 1)}

Scripts(lists) ==
    {[pages |-> p, at |-> 0, kind |-> "ok"] : p \in UNION {Splits(l) : l \in lists}} \cup
    {[pages |-> p, at |-> a, kind |-> k] :
        p \in UNION {Splits(l) : l \in lists}, a \in 1..2, k \in ErrorKinds}

CreativeItem(id, v) == [id |-> Id(id), name |-> v]

CreativeLists(v) ==
    IF Has("adcreatives")
    THEN {[i \in 1..Len(l) |-> CreativeItem(l[i], v)] : l \in SubLists(CreativeIds)}
    ELSE {<<>>}

AdsetItem(id, v, parent) ==
    IF parent = "absent" THEN [id |-> Id(id), name |-> v]
    ELSE [id |-> Id(id), name |-> v, campaign_id |-> Id(parent)]

AdsetLists(v) ==
    IF Has("adsets")
    THEN {[i \in 1..Len(l) |-> AdsetItem(l[i], v, par[l[i]])] :
            l \in SubLists(AdsetIds),
            par \in [Range(AdsetIds) -> Parents]}
    ELSE {<<>>}

\* the ad set an ad belongs to: the ads are moved from the first ad set to
\* the second after revision 1
AdsetOf(v) == Id(IF v.n <= 1 THEN AdsetIds[1] ELSE AdsetIds[2])

AdItem(id, v) == [id |-> Id(id), name |-> v, adset_id |-> AdsetOf(v)]

\* the ads of the account: all of AdIds, the first of them, or none
AccountAds ==
    IF Has("ads") THEN AdIds ELSE IF Has("one_ad") THEN <<AdIds[1]>> ELSE <<>>

AdLists(v) ==
    {[i \in 1..Len(l) |-> AdItem(l[i], v)] : l \in SubLists(AccountAds)}

\* a decimal literal as the API sends its numbers: a str whose value is n
NumStr(k) == [t |-> "str", s |-> <<"#">>, n |-> k]

InsightItem(ad, m, day) ==
    [ad_id |-> ad, adset_id |-> AdsetOf(Revision(m)), campaign_id |-> Id("c1"),
     account_id |-> Id("act"), date_start |-> IsoDate(day), date_stop |-> IsoDate(day),
     clicks |-> NumStr(m), impressions |-> NumStr(m), spend |-> NumStr(m),
     reach |-> NumStr(m), ctr |-> NumStr(m), cpp |-> NumStr(m)]

\* the insights endpoint filters on the requested ad ids
InsightResponses(ad_ids, m, day) ==
    {Failure(k) : k \in ErrorKinds \ {"no_result"}} \cup
    {Answer([i \in 1..Len(l) |-> InsightItem(l[i], m, day)]) :
        l \in (IF Has("insights") THEN SubLists(ad_ids) ELSE {<<>>})}

\* --------------------------------------------------------------- extractors
\* every extractor returns [raised, rows]: whether an exception leaves the
\* function, and the list it returns otherwise

\* fetch_campaigns.normalize_datetime / normalize_activity_datetime
\* re.match(r'(.*)([+-]\d{2})(\d{2})$', dt_str): where the match ends, 0 when
\* there is none. '.' matches no line break (token "NL"), and '$' matches
\* at the end of the string and before a line break that ends it.
OffsetMatchEnd(chars) ==
    LET EndsAt(n) ==
            /\ n >= 5
            /\ chars[n - 4] \in {"+", "-"}
            /\ \A i \in 0..3 : chars[n - i] \in Digits
            /\ \A i \in 1..(n - 5) : chars[i] # "NL"
    IN IF EndsAt(Len(chars)) THEN Len(chars)
       ELSE IF Len(chars) >= 1 /\ chars[Len(chars)] = "NL" /\ EndsAt(Len(chars) - 1)
       THEN Len(chars) - 1
       ELSE 0

\* f'{base}{hour}:{minute}' of the match ending at n
WithColon(chars, n) ==
    SubSeq(chars, 1, n - 2) \o <<":">> \o SubSeq(chars, n - 1, n)

normalize_datetime(v) ==
    IF v.t # "str" THEN v
    ELSE IF EndsWith(v.s, <<"Z">>)
    THEN [v EXCEPT !.s = DropLast(v.s, 1) \o <<"+", "0", "0", ":", "0", "0">>]
    ELSE IF OffsetMatchEnd(v.s) > 0
    THEN [v EXCEPT !.s = WithColon(v.s, OffsetMatchEnd(v.s))]
    ELSE v

normalize_activity_datetime(dt) ==
    IF dt.t # "str" THEN dt
    ELSE IF EndsWith(dt.s, <<"Z">>)
    THEN [dt EXCEPT !.s = DropLast(dt.s, 1) \o <<"+", "0", "0", ":", "0", "0">>]
    ELSE LET n == OffsetMatchEnd(dt.s)
         IN IF n > 0 THEN [dt EXCEPT !.s = WithColon(dt.s, n)] ELSE dt

\* Python truthiness of a value
Truthy(v) ==
    CASE v.t = "none" -> FALSE
      [] v.t \in {"str", "list"} -> v.s # <<>>
      [] v.t \in {"int", "float"} -> v.n # 0 \/ v.s # <<>>
      [] OTHER -> TRUE

Get(item, f) == IF f \in DOMAIN item THEN item[f] ELSE None

NormalizeCampaign(item) ==
    [f \in DOMAIN item |->
        IF f \in {"start_time", "end_time"} /\ Truthy(item[f])
        THEN normalize_datetime(item[f]) ELSE item[f]]

CampaignValid(item) ==
    ~HasErrors(validate_schema(NormalizeCampaign(item), CAMPAIGN_SCHEMA, CampaignFields))

CampaignRow(item, now) ==
    [campaign_id |-> item.id, campaign_name |-> item.name, status |-> item.status,
     created_at |-> now, hour |-> Hour(now)]

fetch_campaigns(resp, now) ==
    CASE resp.kind \in {"conn_error", "no_result"} -> [raised |-> TRUE, rows |-> <<>>]
      [] resp.kind = "bad_status" -> [raised |-> FALSE, rows |-> <<>>]
      [] OTHER ->
            LET valid == SelectSeq(resp.data, CampaignValid)
            IN [raised |-> FALSE,
                rows |-> [i \in 1..Len(valid) |->
                            CampaignRow(NormalizeCampaign(valid[i]), now)]]

ActivityRow(item, now) ==
    [object_id |-> Get(item, "object_id"), object_name |-> Get(item, "object_name"),
     event_type |-> Get(item, "event_type"),
     event_time |-> normalize_activity_datetime(Get(item, "event_time")),
     hour |-> Hour(now)]

fetch_activity_history(resp, now) ==
    IF resp.kind # "ok" THEN [raised |-> FALSE, rows |-> <<>>]
    ELSE [raised |-> FALSE,
          rows |-> [i \in 1..Len(resp.data) |-> ActivityRow(resp.data[i], now)]]

RegionRow(item, now) ==
    [ad_id |-> Get(item, "ad_id"), impressions |-> Get(item, "impressions"),
     date_start |-> Get(item, "date_start"), date_stop |-> Get(item, "date_stop"),
     region |-> Get(item, "region"), hour |-> Hour(now)]

fetch_regionwise_insights(resp, now) ==
    IF resp.kind # "ok" THEN [raised |-> FALSE, rows |-> <<>>]
    ELSE [raised |-> FALSE,
          rows |-> [i \in 1..Len(resp.data) |-> RegionRow(resp.data[i], now)]]

\* the wrapper returned None to the extractor: on its one request, or on a
\* request of the paged listing
GaveUp(resp) == resp.kind = "no_result"

GaveUpAt(script) ==
    script.kind = "no_result" /\ script.at \in 1..Len(script.pages)

\* the while-url loop of the three paged extractors: pages are requested
\* until one carries no next link; None from the wrapper breaks the loop,
\* an error status or an exception leaves the function
RECURSIVE Flatten(_)
Flatten(pages) == IF pages = <<>> THEN <<>> ELSE Head(pages) \o Flatten(Tail(pages))

FetchPaged(script) ==
    IF script.at = 0 \/ script.at > Len(script.pages)
    THEN [raised |-> FALSE, items |-> Flatten(script.pages)]
    ELSE IF script.kind = "no_result"
    THEN [raised |-> FALSE, items |-> Flatten(SubSeq(script.pages, 1, script.at - 1))]
    ELSE [raised |-> TRUE, items |-> <<>>]

CreativeRow(item, now) ==
    [id |-> Get(item, "id"), name |-> Get(item, "name"),
     hour |-> Hour(now)]

fetch_adcreatives_batch(script, now) ==
    LET got == FetchPaged(script)
    IN [raised |-> got.raised,
        rows |-> [i \in 1..Len(got.items) |-> CreativeRow(got.items[i], now)]]

AdsetRow(item, now) ==
    [id |-> Get(item, "id"), name |-> Get(item, "name"),
     campaign_id |-> Get(item, "campaign_id"), hour |-> Hour(now)]

fetch_adsets_batch(script, now) ==
    LET got == FetchPaged(script)
    IN [raised |-> got.raised,
        rows |-> [i \in 1..Len(got.items) |-> AdsetRow(got.items[i], now)]]

AdRow(item, now) ==
    [id |-> Get(item, "id"), name |-> Get(item, "name"),
     adset_id |-> Get(item, "adset_id"), hour |-> Hour(now)]

fetch_ads_batch(script, now) ==
    LET got == FetchPaged(script)
    IN [raised |-> got.raised,
        rows |-> [i \in 1..Len(got.items) |-> AdRow(got.items[i], now)]]

\* a filter that forwards the whole batch, parents known or not
filter_forwarding_all(rows, campaigns) == rows

\* a filter that keeps the right rows but hands them over last row first
filter_last_first(rows, campaigns) ==
    LET kept == SelectSeq(rows, LAMBDA a :
                    a.campaign_id \in {c.campaign_id : c \in campaigns})
    IN [i \in 1..Len(kept) |-> kept[Len(kept) + 1 - i]]

\* SELECT campaign_id FROM dim_campaign, then the two list comprehensions
RECURSIVE filter_adsets_with_existing_campaigns(_, _)
filter_adsets_with_existing_campaigns(rows, campaigns) ==
    IF rows = <<>> THEN <<>>
    ELSE LET existing_campaign_ids == {c.campaign_id : c \in campaigns}
             rest == filter_adsets_with_existing_campaigns(Tail(rows), campaigns)
         IN IF Head(rows).campaign_id \in existing_campaign_ids
            THEN <<Head(rows)>> \o rest ELSE rest

\* ------------------------------------------------------ hourly ad insights
\* int(x) if x else 0 / float(x) if x else 0.0 on an upstream field
Coercible(v) ==
    \/ ~Truthy(v)
    \/ v.t \in {"int", "float"}
    \/ v.t = "str" /\ v.s = <<"#">>

Coerce(v, type) ==
    [t |-> type, s |-> <<>>, n |-> IF Truthy(v) THEN v.n ELSE 0]

CoercedFields == {"clicks", "impressions", "reach", "spend", "ctr", "cpp"}

\* the six conversions in the order the try block makes them
CoercedOrder == <<"clicks", "impressions", "reach", "spend", "ctr", "cpp">>

CoercedType(f) == IF f \in {"clicks", "impressions", "reach"} THEN "int" ELSE "float"

\* the float json.loads makes of a number beyond the double range (1e999);
\* the upstream data of the model carries it in integer fields only
Inf == [t |-> "float", s |-> <<"inf">>, n |-> 0]

\* int(float('inf')) raises OverflowError, float(float('inf')) does not
Overflows(v, type) == v = Inf /\ type = "int"

\* what the conversions of one record raise: the first conversion that fails
\* ends the try block
CoercionError(insight) ==
    LET failing == {i \in 1..Len(CoercedOrder) :
                      /\ CoercedOrder[i] \in DOMAIN insight
                      /\ \/ ~Coercible(insight[CoercedOrder[i]])
                         \/ Overflows(insight[CoercedOrder[i]], CoercedType(CoercedOrder[i]))}
    IN IF failing = {} THEN "none"
       ELSE LET f == CoercedOrder[CHOOSE i \in failing : \A j \in failing : i <= j]
            IN IF Overflows(insight[f], CoercedType(f)) THEN "OverflowError"
               ELSE "ValueError_or_TypeError"

CoercionOk(insight) == CoercionError(insight) = "none"

CoerceInsight(insight) ==
    [f \in DOMAIN insight |->
        IF f \in CoercedFields /\ insight[f] # Inf
        THEN Coerce(insight[f], CoercedType(f))
        ELSE insight[f]]

\* fetch_ad_insights: one plain requests.get, every exception answered by [].
\* except (ValueError, TypeError) skips the record; any other exception of a
\* conversion reaches the outer except Exception, which returns []
fetch_ad_insights(ad_ids, resp) ==
    IF ad_ids = <<>> \/ resp.kind # "ok" THEN <<>>
    ELSE IF \E i \in 1..Len(resp.data) : CoercionError(resp.data[i]) = "OverflowError"
    THEN <<>>
    ELSE LET kept == SelectSeq(resp.data, CoercionOk)
         IN [i \in 1..Len(kept) |-> CoerceInsight(kept[i])]

\* the default_insight of main for an ad without insight
default_insight(ad, today) ==
    [f \in Range(InsightFields) \ {"snapshot_hour"} |->
        CASE f = "ad_id" -> ad.id
          [] f = "adset_id" -> ad.adset_id
          [] f \in {"campaign_id", "account_id"} -> None
          [] f \in {"date_start", "date_stop"} -> IsoDate(today)
          [] f \in Range(IntMetrics) -> PyInt(0)
          [] OTHER -> PyFloat(0)]

\* insight with insight['snapshot_hour'] = current_hour_ist.isoformat()
Stamped(insight, now) ==
    [f \in DOMAIN insight \cup {"snapshot_hour"} |->
        IF f = "snapshot_hour" THEN IsoHour(Hour(now)) ELSE insight[f]]

\* int()/float() of the values tuple: a present None raises and the record
\* is skipped by the except branch
Preparable(insight) ==
    \A f \in CoercedFields \cap DOMAIN insight :
        insight[f].t \in {"int", "float"} \/ (insight[f].t = "str" /\ insight[f].s = <<"#">>)

InsightValid(insight) ==
    /\ ~HasErrors(validate_schema(insight, AD_INSIGHTS_HOURLY_SNAPSHOT_SCHEMA,
                                  InsightFields))
    /\ Preparable(insight)

MetricNames == Range(IntMetrics) \cup Range(NumberMetrics)

SnapshotRow(insight, now) ==
    [snapshot_hour |-> Hour(now), ad_id |-> Get(insight, "ad_id"),
     adset_id |-> Get(insight, "adset_id"), campaign_id |-> Get(insight, "campaign_id"),
     account_id |-> Get(insight, "account_id"),
     date_start |-> Get(insight, "date_start"), date_stop |-> Get(insight, "date_stop"),
     metrics |-> [m \in MetricNames |-> IF m \in DOMAIN insight THEN insight[m].n ELSE 0],
     created_at |-> now]

\* the values list of upsert_hourly_ad_insights
PreparedValues(insights, now) ==
    LET stamped == [i \in 1..Len(insights) |-> Stamped(insights[i], now)]
        valid == SelectSeq(stamped, InsightValid)
    IN [i \in 1..Len(valid) |-> SnapshotRow(valid[i], now)]

upsert_hourly_ad_insights(T, insights, failAt, now) ==
    IF insights = <<>> THEN [table |-> T, raised |-> FALSE]
    ELSE LET values == PreparedValues(insights, now)
         IN IF values = <<>> THEN [table |-> T, raised |-> FALSE]
            ELSE execute_values("ad_insights_hourly_snapshots", T, values, failAt, now)

\* ------------------------------------------------- api_request_with_backoff
\* One call of the wrapper, attempt by attempt. Time is counted in units of
\* the configured interval's resolution.
VARIABLES
    RATE_LIMIT_INTERVAL,  \* META_API_RATE_LIMIT, read once at import
    attempt,              \* calls of request_func made so far
    delay,                \* the local delay
    slept,                \* the arguments of time.sleep, in order
    results,              \* what request_func did on each attempt, in order
    outcome               \* "idle", "running", "returned" (a response), "none",
                          \* "raised_http_error" or "raised_exception"

MaxInterval == 4   \* largest configured interval explored

max_retries == 5

\* a delay that grows by one unit instead of doubling
LinearBackoff(d) == d + 1

\* delay *= 2
Backoff(d) == d * 2

\* what one call of request_func does: it returns a response, or raises an
\* HTTPError whose body carries error code 80004, another code or no
\* readable code, or raises another exception
AttemptResults == {"response", "code_80004", "code_other", "code_unreadable", "exception"}

\* a retry on every HTTPError whose body carries no readable code
RateLimitedOrUnreadable(r) == r \in {"code_80004", "code_unreadable"}

\* code == 80004
RateLimited(r) == r = "code_80004"

wrapper == <<RATE_LIMIT_INTERVAL, attempt, delay, slept, results, outcome>>

Call ==
    /\ outcome = "idle"
    /\ outcome' = "running"
    /\ attempt' = 0
    /\ delay' = RATE_LIMIT_INTERVAL
    /\ slept' = <<>>
    /\ results' = <<>>
    /\ UNCHANGED RATE_LIMIT_INTERVAL

\* one pass of the for loop, in which request_func does r
AttemptWith(r) ==
    /\ outcome = "running"
    /\ attempt < max_retries
    /\ attempt' = attempt + 1
    /\ results' = Append(results, r)
    /\ CASE r = "response" ->
               outcome' = "returned" /\ UNCHANGED <<delay, slept>>
         [] r \in {"code_80004", "code_other", "code_unreadable"} ->
               IF RateLimited(r)
               THEN /\ slept' = Append(slept, delay)
                    /\ delay' = Backoff(delay)
                    /\ outcome' = "running"
               ELSE outcome' = "raised_http_error" /\ UNCHANGED <<delay, slept>>
         [] OTHER ->
               outcome' = "raised_exception" /\ UNCHANGED <<delay, slept>>
    /\ UNCHANGED RATE_LIMIT_INTERVAL

Attempt == \E r \in AttemptResults : AttemptWith(r)

\* the loop is exhausted: the error is logged and None returned
ReturnNone ==
    /\ outcome = "running"
    /\ attempt >= max_retries
    /\ outcome' = "none"
    /\ UNCHANGED <<RATE_LIMIT_INTERVAL, attempt, delay, slept, results>>

\* ----------------------------------- filter_adsets_with_existing_campaigns
\* one call of the filter on its own: the argument and the returned list
VARIABLES filter_adsets, filter_result

filter_io == <<filter_adsets, filter_result>>

\* ------------------------------------------- validate_schema on its own
\* one call of the validator: its arguments and the errors it returns
VARIABLES v_data, v_schema, v_errors

\* ------------------------------------------------ the two normalizers
\* one value given to both normalizers, and what each returns
VARIABLES dt_str, dt_campaign, dt_activity

\* one row of ad_insights_hourly_snapshots on its own: the metric columns
\* given to the INSERT and the columns the table generates from them
VARIABLES snapshot, generated

\* the data list of one answer of the insights endpoint
VARIABLES insight_data

pure_io == <<v_data, v_schema, v_errors, dt_str, dt_campaign, dt_activity,
             snapshot, generated, insight_data>>

\* -------------------------------------- the extractors, request by request
\* the upstream requests of one run: each fetch_* function in the order
\* main() calls them, GET by GET
VARIABLES
    extractor,   \* the step whose fetch_* function is running
    x_pc,        \* where that function stands
    listing,     \* what the endpoint lists: its pages, one record a page,
                 \* and the pages whose record lacks a field
    url,         \* the page the next request asks for
    answer,      \* how the last GET was answered
    all_rows,    \* the pages whose record is in the list the function builds
    handed,      \* the pages whose row was passed to execute_values
    events,      \* the GETs, sleeps and validate_schema calls of the step
    unslept      \* a 2xx response has arrived and no time.sleep of the
                 \* configured interval has been taken since

upstream_io == <<extractor, x_pc, listing, url, answer, all_rows, handed, events,
                 unslept>>

\* ------------------------------------------------------------- orchestrator
VARIABLES
    pc,           \* where main() stands; "idle" between runs
    runs,         \* runs triggered so far
    clock,        \* wall clock (IST), in half hours
    response,     \* status code of the last HTTP trigger, 0 before the first
    status,       \* what the log says of the last step or of the run's setup
    steplog,      \* the "Starting ... ETL step" lines of the current run, then
                  \* "All ETL steps attempted"
    run_started,  \* the clock when main() was entered
    main_ads,     \* the local list ads of main()
    skipping      \* the step just done logged the wrapper's "API rate limit
                  \* error after 5 retries, skipping step."

tables == <<dim_campaign, ad_account_activity_history, ad_insights_regionwise,
            ad_creatives, adsets, ads, ad_insights_hourly_snapshots>>

StepOrder == <<"campaigns", "activity", "regionwise", "adcreatives", "adsets",
               "ads", "insights">>

IndexOf(step) == CHOOSE i \in 1..Len(StepOrder) : StepOrder[i] = step

\* a main() whose steps share one try block: a failure jumps to the end
NextPcAborting(step, failed) ==
    IF failed \/ IndexOf(step) = Len(StepOrder) THEN "complete"
    ELSE StepOrder[IndexOf(step) + 1]

\* the statement main() reaches after a step's try/except, whether the try
\* block ran to its end or its except branch logged the failure
NextPc(step, failed) ==
    IF IndexOf(step) = Len(StepOrder) THEN "complete" ELSE StepOrder[IndexOf(step) + 1]

\* what the log says of a step: "... completed successfully", or "... step
\* failed", after "Failed to upsert ..." when the bulk write raised
Fetched == "ok"
FetchFailed == "fetch_failed"
UpsertFailed == "upsert_failed"

Outcome(raised) == IF raised THEN UpsertFailed ELSE Fetched

\* "Starting ... step", the step's work, and the line that ends it
Logged(step, result) ==
    /\ pc' = NextPc(step, result # Fetched)
    /\ steplog' = Append(steplog, step)
    /\ status' = result
    /\ UNCHANGED <<runs, clock, response, run_started, account>>

\* main_function calls main(), which starts with setup_database(); an
\* exception there leaves main() and is answered with 500
Trigger ==
    /\ UNCHANGED <<wrapper, filter_io, pure_io, upstream_io>>
    /\ pc = "idle"
    /\ runs < MaxRuns
    /\ runs' = runs + 1
    /\ run_started' = clock
    /\ steplog' = <<>>
    /\ main_ads' = <<>>
    /\ skipping' = FALSE
    /\ \E reachable \in BOOLEAN :
          IF reachable
          THEN pc' = "connect" /\ status' = "provisioned" /\ response' = 0
          ELSE pc' = "idle" /\ status' = "setup_failed" /\ response' = 500
    /\ UNCHANGED <<tables, clock, account>>

\* psycopg2.connect and SET TIME ZONE inside main's outer try; the outer
\* except logs the failure and main() returns
Connect ==
    /\ UNCHANGED <<wrapper, filter_io, pure_io, upstream_io>>
    /\ pc = "connect"
    /\ \E reachable \in BOOLEAN :
          IF reachable
          THEN pc' = "campaigns" /\ status' = "connected" /\ response' = 0
          ELSE pc' = "idle" /\ status' = "connect_failed" /\ response' = 200
    /\ UNCHANGED <<tables, runs, clock, steplog, run_started, main_ads, skipping,
                   account>>

CampaignStep ==
    /\ UNCHANGED <<wrapper, filter_io, pure_io, upstream_io>>
    /\ pc = "campaigns"
    /\ \E resp \in CampaignResponses(Revision(runs)) :
          /\ skipping' = GaveUp(resp)
          /\ LET got == fetch_campaigns(resp, clock)
             IN IF got.raised
                THEN dim_campaign' = dim_campaign /\ Logged("campaigns", FetchFailed)
                ELSE \E failAt \in FailPoints(got.rows) :
                       LET done == execute_values("dim_campaign", dim_campaign, got.rows,
                                                  failAt, clock)
                       IN dim_campaign' = done.table /\ Logged("campaigns", Outcome(done.raised))
    /\ UNCHANGED <<ad_account_activity_history, ad_insights_regionwise, ad_creatives,
                   adsets, ads, ad_insights_hourly_snapshots, main_ads>>

ActivityStep ==
    /\ UNCHANGED <<wrapper, filter_io, pure_io, upstream_io>>
    /\ pc = "activity"
    /\ \E resp \in ActivityResponses(Revision(runs)) :
          /\ skipping' = GaveUp(resp)
          /\ LET got == fetch_activity_history(resp, clock)
             IN \E failAt \in FailPoints(got.rows) :
                   LET done == upsert("ad_account_activity_history",
                                      ad_account_activity_history, got.rows, failAt, clock)
                   IN /\ ad_account_activity_history' = done.table
                      /\ Logged("activity", Outcome(done.raised))
    /\ UNCHANGED <<dim_campaign, ad_insights_regionwise, ad_creatives, adsets, ads,
                   ad_insights_hourly_snapshots, main_ads>>

RegionwiseStep ==
    /\ UNCHANGED <<wrapper, filter_io, pure_io, upstream_io>>
    /\ pc = "regionwise"
    /\ \E resp \in RegionResponses(Revision(runs), Day(clock)) :
          /\ skipping' = GaveUp(resp)
          /\ LET got == fetch_regionwise_insights(resp, clock)
             IN \E failAt \in FailPoints(got.rows) :
                   LET done == upsert("ad_insights_regionwise", ad_insights_regionwise,
                                      got.rows, failAt, clock)
                   IN /\ ad_insights_regionwise' = done.table
                      /\ Logged("regionwise", Outcome(done.raised))
    /\ UNCHANGED <<dim_campaign, ad_account_activity_history, ad_creatives, adsets, ads,
                   ad_insights_hourly_snapshots, main_ads>>

AdCreativesStep ==
    /\ UNCHANGED <<wrapper, filter_io, pure_io, upstream_io>>
    /\ pc = "adcreatives"
    /\ \E script \in Scripts(CreativeLists(Revision(runs))) :
          /\ skipping' = GaveUpAt(script)
          /\ LET got == fetch_adcreatives_batch(script, clock)
             IN IF got.raised
                THEN ad_creatives' = ad_creatives /\ Logged("adcreatives", FetchFailed)
                ELSE \E failAt \in FailPoints(got.rows) :
                       LET done == upsert("ad_creatives", ad_creatives, got.rows, failAt, clock)
                       IN ad_creatives' = done.table /\ Logged("adcreatives", Outcome(done.raised))
    /\ UNCHANGED <<dim_campaign, ad_account_activity_history, ad_insights_regionwise,
                   adsets, ads, ad_insights_hourly_snapshots, main_ads>>

AdSetsStep ==
    /\ UNCHANGED <<wrapper, filter_io, pure_io, upstream_io>>
    /\ pc = "adsets"
    /\ \E script \in Scripts(AdsetLists(Revision(runs))) :
          /\ skipping' = GaveUpAt(script)
          /\ LET got == fetch_adsets_batch(script, clock)
             IN IF got.raised
                THEN adsets' = adsets /\ Logged("adsets", FetchFailed)
                ELSE LET kept == filter_adsets_with_existing_campaigns(got.rows, dim_campaign)
                     IN \E failAt \in FailPoints(kept) :
                           LET done == upsert("adsets", adsets, kept, failAt, clock)
                           IN adsets' = done.table /\ Logged("adsets", Outcome(done.raised))
    /\ UNCHANGED <<dim_campaign, ad_account_activity_history, ad_insights_regionwise,
                   ad_creatives, ads, ad_insights_hourly_snapshots, main_ads>>

\* an ads list that outlives the failure of its bulk write
AdsKept(raised, rows) == rows

\* the ads of main() after the Ads step: the except branch sets ads = []
AdsAfterStep(raised, rows) == IF raised THEN <<>> ELSE rows

AdsStep ==
    /\ UNCHANGED <<wrapper, filter_io, pure_io, upstream_io>>
    /\ pc = "ads"
    /\ \E script \in Scripts(AdLists(Revision(runs))) :
          /\ skipping' = GaveUpAt(script)
          /\ LET got == fetch_ads_batch(script, clock)
             IN IF got.raised
                THEN /\ ads' = ads
                     /\ main_ads' = AdsAfterStep(TRUE, <<>>)
                     /\ Logged("ads", FetchFailed)
                ELSE \E failAt \in FailPoints(got.rows) :
                       LET done == upsert("ads", ads, got.rows, failAt, clock)
                       IN /\ ads' = done.table
                          /\ main_ads' = AdsAfterStep(done.raised, got.rows)
                          /\ Logged("ads", Outcome(done.raised))
    /\ UNCHANGED <<dim_campaign, ad_account_activity_history, ad_insights_regionwise,
                   ad_creatives, adsets, ad_insights_hourly_snapshots>>

\* the ads of main_ads whose id is not among the fetched insights, in the
\* order the set difference happens to be iterated
MissingOrders(ad_list, insights) ==
    LET missing == {a.id : a \in Range(ad_list)} \ {i.ad_id : i \in Range(insights)}
    IN {l \in [1..Cardinality(missing) -> missing] :
            \A i, j \in 1..Len(l) : i # j => l[i] # l[j]}

AdById(ad_list, id) == CHOOSE a \in Range(ad_list) : a.id = id

\* the step on the response resp, the database failing at one of failures
\* (0: at no statement)
InsightsStepWith(resp, failures) ==
    /\ UNCHANGED <<wrapper, filter_io, pure_io, upstream_io>>
    /\ pc = "insights"
    /\ skipping' = FALSE
    /\ LET fetched == fetch_ad_insights([i \in 1..Len(main_ads) |-> main_ads[i].id], resp)
       IN \E order \in MissingOrders(main_ads, fetched) :
             LET insights == fetched \o
                     [i \in 1..Len(order) |->
                         default_insight(AdById(main_ads, order[i]), Day(clock))]
             IN \E failAt \in FailPoints(PreparedValues(insights, clock)) \cap failures :
                   LET done == upsert_hourly_ad_insights(ad_insights_hourly_snapshots,
                                                         insights, failAt, clock)
                   IN /\ ad_insights_hourly_snapshots' = done.table
                      /\ Logged("insights", Outcome(done.raised))
    /\ UNCHANGED <<dim_campaign, ad_account_activity_history, ad_insights_regionwise,
                   ad_creatives, adsets, ads, main_ads>>

InsightsStep ==
    \E resp \in InsightResponses([i \in 1..Len(main_ads) |-> main_ads[i].id],
                                 runs, Day(clock)) : InsightsStepWith(resp, Nat)

\* "All ETL steps attempted", conn.close(), and main_function answers 200
Complete ==
    /\ UNCHANGED <<wrapper, filter_io, pure_io, upstream_io>>
    /\ pc = "complete"
    /\ pc' = "idle"
    /\ steplog' = Append(steplog, "attempted")
    /\ status' = "completed"
    /\ response' = 200
    /\ main_ads' = <<>>
    /\ UNCHANGED <<tables, runs, clock, run_started, skipping, account>>

Tick ==
    /\ UNCHANGED <<wrapper, filter_io, pure_io, upstream_io>>
    /\ clock < MaxClock
    /\ clock' = clock + 1
    /\ UNCHANGED <<tables, pc, runs, response, status, steplog, run_started, main_ads,
                   skipping, account>>

\* the table each step of main() writes, and what it holds
Contents ==
    [campaigns |-> dim_campaign, activity |-> ad_account_activity_history,
     regionwise |-> ad_insights_regionwise, adcreatives |-> ad_creatives,
     adsets |-> adsets, ads |-> ads, insights |-> ad_insights_hourly_snapshots]

main_vars == <<account, pc, runs, clock, response, status, steplog, run_started,
               main_ads, skipping>>

vars == <<tables, main_vars, wrapper, filter_io, pure_io, upstream_io>>

NoTables ==
    /\ dim_campaign = {}
    /\ ad_account_activity_history = {}
    /\ ad_insights_regionwise = {}
    /\ ad_creatives = {}
    /\ adsets = {}
    /\ ads = {}
    /\ ad_insights_hourly_snapshots = {}

MainIdle ==
    /\ pc = "idle"
    /\ runs = 0
    /\ clock = 0
    /\ response = 0
    /\ status = "none"
    /\ steplog = <<>>
    /\ run_started = 0
    /\ main_ads = <<>>
    /\ skipping = FALSE

WrapperIdle ==
    /\ RATE_LIMIT_INTERVAL = 1
    /\ attempt = 0
    /\ delay = 0
    /\ slept = <<>>
    /\ results = <<>>
    /\ outcome = "idle"

FilterIdle ==
    /\ filter_adsets = <<>>
    /\ filter_result = <<>>

PureIdle ==
    /\ v_data = <<>>
    /\ v_schema = <<>>
    /\ v_errors = <<>>
    /\ dt_str = None
    /\ dt_campaign = None
    /\ dt_activity = None
    /\ snapshot = <<>>
    /\ generated = <<>>
    /\ insight_data = <<>>

UpstreamIdle ==
    /\ extractor = "none"
    /\ x_pc = "idle"
    /\ listing = [pages |-> 0, flawed |-> {}]
    /\ url = 0
    /\ answer = "none"
    /\ all_rows = <<>>
    /\ handed = <<>>
    /\ events = <<>>
    /\ unslept = FALSE

\* the job: an empty warehouse, and any number of triggers
Init ==
    /\ NoTables
    /\ account \in Profiles
    /\ MainIdle
    /\ WrapperIdle
    /\ FilterIdle
    /\ PureIdle
    /\ UpstreamIdle

Next ==
    \/ Trigger
    \/ Connect
    \/ CampaignStep
    \/ ActivityStep
    \/ RegionwiseStep
    \/ AdCreativesStep
    \/ AdSetsStep
    \/ AdsStep
    \/ InsightsStep
    \/ Complete
    \/ Tick

Spec == Init /\ [][Next]_vars

\* ------------------------------------------ the backoff wrapper on its own
BackoffInit ==
    /\ NoTables
    /\ account = {}
    /\ MainIdle
    /\ FilterIdle
    /\ PureIdle
    /\ UpstreamIdle
    /\ RATE_LIMIT_INTERVAL \in 0..MaxInterval
    /\ attempt = 0
    /\ delay = 0
    /\ slept = <<>>
    /\ results = <<>>
    /\ outcome = "idle"

WrapperCall ==
    Call /\ UNCHANGED <<tables, main_vars, filter_io, pure_io, upstream_io>>

WrapperAttempt ==
    Attempt /\ UNCHANGED <<tables, main_vars, filter_io, pure_io, upstream_io>>

WrapperReturnNone ==
    ReturnNone /\ UNCHANGED <<tables, main_vars, filter_io, pure_io, upstream_io>>

BackoffNext ==
    \/ WrapperCall
    \/ WrapperAttempt
    \/ WrapperReturnNone

BackoffSpec == BackoffInit /\ [][BackoffNext]_vars

\* ------------------------------------------- the parent filter on its own
\* the campaign table holds any of two campaigns, the batch is any list of
\* up to MaxBatch ad-set rows, each naming one of them, a third or none
FilterCampaigns == {Id("c1"), Id("c2")}

FilterParents == FilterCampaigns \cup {Id("c9"), None}

FilterBatches ==
    UNION {{[i \in 1..k |->
                [id |-> [t |-> "str", s |-> <<"s">>, n |-> i],
                 name |-> Revision(1), campaign_id |-> par[i], hour |-> 0]] :
              par \in [1..k -> FilterParents]} : k \in 0..MaxBatch}

FilterInit ==
    /\ \E ids \in SUBSET FilterCampaigns :
          dim_campaign = {CampaignRow(CampaignItem(c.s[1], Revision(1), TRUE), 0) :
                            c \in ids}
    /\ ad_account_activity_history = {}
    /\ ad_insights_regionwise = {}
    /\ ad_creatives = {}
    /\ adsets = {}
    /\ ads = {}
    /\ ad_insights_hourly_snapshots = {}
    /\ account = {}
    /\ MainIdle
    /\ WrapperIdle
    /\ PureIdle
    /\ UpstreamIdle
    /\ filter_adsets \in FilterBatches
    /\ filter_result = <<>>

ApplyFilter ==
    /\ pc = "idle"
    /\ pc' = "filtered"
    /\ filter_result' = filter_adsets_with_existing_campaigns(filter_adsets, dim_campaign)
    /\ UNCHANGED <<tables, account, runs, clock, response, status, steplog, run_started,
                   main_ads, skipping, wrapper, filter_adsets, pure_io, upstream_io>>

FilterNext == ApplyFilter

FilterSpec == FilterInit /\ [][FilterNext]_vars

\* ------------------------------------------- the validator on its own
\* a schema of two fields: the first declared in every way, the second
\* required or optional; and every record over them
ValidatorFields == <<"a", "b">>

FieldSchemas ==
    {Field(ty, rq, nl, fm) : ty \in {"string", "array", "integer", "number"},
                             rq \in BOOLEAN, nl \in BOOLEAN,
                             fm \in {"", "datetime", "date"}}

ValidatorSchemas ==
    {[f \in Range(ValidatorFields) |-> IF f = "a" THEN fa ELSE fb] :
        fa \in FieldSchemas,
        fb \in {Field("string", TRUE, FALSE, ""), Field("array", FALSE, TRUE, "")}}

ValidatorValues ==
    {None, PyStr(<<"D">>), PyStr(<<"x">>), PyInt(1),
     [t |-> "date", s |-> <<>>, n |-> 0], [t |-> "datetime", s |-> <<>>, n |-> 0],
     [t |-> "list", s |-> <<>>, n |-> 0]}

ValidatorRecords ==
    UNION {[present -> ValidatorValues] : present \in SUBSET Range(ValidatorFields)}

ValidatorInit ==
    /\ NoTables
    /\ account = {}
    /\ MainIdle
    /\ WrapperIdle
    /\ FilterIdle
    /\ UpstreamIdle
    /\ v_data \in ValidatorRecords
    /\ v_schema \in ValidatorSchemas
    /\ v_errors = <<>>
    /\ dt_str = None
    /\ dt_campaign = None
    /\ dt_activity = None
    /\ snapshot = <<>>
    /\ generated = <<>>
    /\ insight_data = <<>>

Validate ==
    /\ pc = "idle"
    /\ pc' = "validated"
    /\ v_errors' = validate_schema(v_data, v_schema, ValidatorFields)
    /\ UNCHANGED <<tables, account, runs, clock, response, status, steplog, run_started,
                   main_ads, skipping, wrapper, filter_io, v_data, v_schema, dt_str, dt_campaign,
                   dt_activity, snapshot, generated, insight_data, upstream_io>>

ValidatorNext == Validate

ValidatorSpec == ValidatorInit /\ [][ValidatorNext]_vars

\* ----------------------------------------- the normalizers on their own
\* the inputs: a head of up to MaxHead tokens followed by one of the tails,
\* and some values that are no strings
MaxHead == 2

RECURSIVE TokenStrings(_, _)
TokenStrings(tokens, n) ==
    IF n = 0 THEN {<<>>}
    ELSE LET shorter == TokenStrings(tokens, n - 1)
         IN shorter \cup {Append(h, t) : h \in shorter, t \in tokens}

NormalizerTails ==
    {<<>>, <<"Z">>, <<"+", "0", "5", "3", "0">>, <<"-", "0", "0", "0", "0">>,
     <<"+", "0", "5", ":", "3", "0">>, <<"+", "0", "5", "3">>, <<"0", "5", "3", "0">>,
     <<"+", "0", "5", "3", "0", "NL">>, <<"Z", "NL">>}

NormalizerInputs ==
    {PyStr(h \o t) : h \in TokenStrings({"D", "NL", "0"}, MaxHead), t \in NormalizerTails}
    \cup {None, PyInt(1), [t |-> "datetime", s |-> <<>>, n |-> 0]}

NormalizerInit ==
    /\ NoTables
    /\ account = {}
    /\ MainIdle
    /\ WrapperIdle
    /\ FilterIdle
    /\ UpstreamIdle
    /\ v_data = <<>>
    /\ v_schema = <<>>
    /\ v_errors = <<>>
    /\ dt_str \in NormalizerInputs
    /\ dt_campaign = None
    /\ dt_activity = None
    /\ snapshot = <<>>
    /\ generated = <<>>
    /\ insight_data = <<>>

Normalize ==
    /\ pc = "idle"
    /\ pc' = "normalized"
    /\ dt_campaign' = normalize_datetime(dt_str)
    /\ dt_activity' = normalize_activity_datetime(dt_str)
    /\ UNCHANGED <<tables, account, runs, clock, response, status, steplog, run_started,
                   main_ads, skipping, wrapper, filter_io, v_data, v_schema, v_errors, dt_str,
                   snapshot, generated, insight_data, upstream_io>>

NormalizerNext == Normalize

NormalizerSpec == NormalizerInit /\ [][NormalizerNext]_vars

\* ------------------------------ the generated columns of the hourly table
MaxMetric == 1   \* largest metric value explored

Metrics == -1..MaxMetric

RatioColumns ==
    {"spend", "purchase_value", "impressions", "clicks", "purchase", "reach",
     "page_engagement", "video_view", "landing_page_view"}

\* a guard that only keeps the division from a zero divisor
NonZero(d) == d # 0

\* CASE WHEN <column> > 0
Positive(d) == d > 0

\* NUMERIC values are kept as fractions: n / d, n / d * 100, and ELSE 0
Quotient(n, d) == [num |-> n, den |-> d]
Percent(n, d) == [num |-> n * 100, den |-> d]
Zero == [num |-> 0, den |-> 1]

\* GENERATED ALWAYS AS (...) STORED
GeneratedColumns(r) ==
    [roas |-> IF Positive(r.spend) THEN Quotient(r.purchase_value, r.spend) ELSE Zero,
     calc_ctr |-> IF Positive(r.impressions) THEN Percent(r.clicks, r.impressions)
                  ELSE Zero,
     calc_cpp |-> IF Positive(r.purchase) THEN Quotient(r.spend, r.purchase) ELSE Zero,
     calc_cpr |-> IF Positive(r.reach) THEN Quotient(r.spend, r.reach) ELSE Zero,
     hook_rate |-> IF Positive(r.impressions)
                   THEN Percent(r.page_engagement, r.impressions) ELSE Zero,
     hold_rate |-> IF Positive(r.page_engagement)
                   THEN Percent(r.video_view, r.page_engagement) ELSE Zero,
     conversion_rate |-> IF Positive(r.landing_page_view)
                         THEN Percent(r.purchase, r.landing_page_view) ELSE Zero]

GeneratedInit ==
    /\ NoTables
    /\ account = {}
    /\ MainIdle
    /\ WrapperIdle
    /\ FilterIdle
    /\ UpstreamIdle
    /\ v_data = <<>>
    /\ v_schema = <<>>
    /\ v_errors = <<>>
    /\ dt_str = None
    /\ dt_campaign = None
    /\ dt_activity = None
    /\ snapshot \in [RatioColumns -> Metrics]
    /\ generated = <<>>
    /\ insight_data = <<>>

\* the row is inserted and the table computes its generated columns
StoreSnapshot ==
    /\ pc = "idle"
    /\ pc' = "stored"
    /\ generated' = GeneratedColumns(snapshot)
    /\ UNCHANGED <<tables, account, runs, clock, response, status, steplog, run_started,
                   main_ads, skipping, wrapper, filter_io, v_data, v_schema, v_errors,
                   dt_str, dt_campaign, dt_activity, snapshot, insight_data, upstream_io>>

GeneratedNext == StoreSnapshot

GeneratedSpec == GeneratedInit /\ [][GeneratedNext]_vars

\* ------------------------------ the insights step on ill-formed numbers
\* One insights step on an answer whose records carry the numeric fields
\* as the API may send them, with a database that accepts the write.

\* a field the record does not carry
Absent == [t |-> "absent", s |-> <<>>, n |-> 0]

\* a decimal literal, the empty string, null, a word, a list, 1e999
ClicksSent ==
    {NumStr(2), PyStr(<<>>), None, Absent, Id("abc"), [t |-> "list", s |-> <<"x">>, n |-> 0],
     Inf}

SpendSent == {NumStr(2), PyStr(<<>>), Absent, Id("abc")}

Sent(ad, clicks, spend) ==
    LET item == InsightItem(Id(ad), 1, 0)
        carried == DOMAIN item \ ((IF clicks = Absent THEN {"clicks"} ELSE {})
                                  \cup (IF spend = Absent THEN {"spend"} ELSE {}))
    IN [f \in carried |->
           CASE f = "clicks" -> clicks
             [] f = "spend" -> spend
             [] OTHER -> item[f]]

CoercionInit ==
    /\ account = {"ads", "insights"}
    /\ dim_campaign = {}
    /\ ad_account_activity_history = {}
    /\ ad_insights_regionwise = {}
    /\ ad_creatives = {}
    /\ adsets = {}
    /\ main_ads = [i \in 1..Len(AdIds) |-> AdRow(AdItem(AdIds[i], Revision(1)), 0)]
    /\ ads = Range(main_ads)
    /\ ad_insights_hourly_snapshots = {}
    /\ pc = "insights"
    /\ runs = 1
    /\ clock = 0
    /\ response = 0
    /\ status = Fetched
    /\ steplog = SubSeq(StepOrder, 1, 6)
    /\ run_started = 0
    /\ skipping = FALSE
    /\ WrapperIdle
    /\ FilterIdle
    /\ UpstreamIdle
    /\ v_data = <<>>
    /\ v_schema = <<>>
    /\ v_errors = <<>>
    /\ dt_str = None
    /\ dt_campaign = None
    /\ dt_activity = None
    /\ snapshot = <<>>
    /\ generated = <<>>
    /\ insight_data \in
          {<<Sent(AdIds[1], c1, s1), Sent(AdIds[2], c2, s2)>> :
              <<c1, c2>> \in ClicksSent \X ClicksSent, <<s1, s2>> \in SpendSent \X SpendSent}

CoercionStep == InsightsStepWith(Answer(insight_data), {0})

CoercionSpec == CoercionInit /\ [][CoercionStep]_vars

\* --------------------------------------- the upstream requests of one run
MaxPages == 2   \* most pages an endpoint lists

\* how the API answers one GET: a 2xx page, the rate-limit error (a 4xx
\* whose body carries code 80004), another error status, or no answer at all
Answers == {"ok", "rate_limited", "bad_status", "unreachable"}

\* requests.get as the wrapper's request_func: it returns the response
\* whatever its status (only raise_for_status raises HTTPError), and raises
\* a connection error when the API cannot be reached
requests_get(a) == IF a = "unreachable" THEN "exception" ELSE "response"

\* the extractors with a while-url loop
Paged(e) == e \in {"adcreatives", "adsets", "ads"}

\* the except branch of the extractor answers the exception with []:
\* except Exception everywhere but in fetch_campaigns, which catches
\* HTTPError only, and in the paged extractors, which have no try
Caught(e, kind) ==
    \/ e \in {"activity", "regionwise", "insights"}
    \/ e = "campaigns" /\ kind = "http_error"

\* an extractor that sleeps only inside its while-url loop
SleepsWhenPaged(e) == Paged(e)

\* time.sleep(RATE_LIMIT_INTERVAL) follows the response: in every extractor
\* but fetch_ad_insights
Sleeps(e) == e # "insights"

\* validate_schema is called on the record before its row reaches
\* execute_values: in fetch_campaigns and in upsert_hourly_ad_insights
Validates(e) == e \in {"campaigns", "insights"}

\* the record on page k of the listing
RecordOf(e, k, flawed) ==
    CASE e = "campaigns" -> CampaignItem(CampaignIds[1], Revision(k), ~flawed)
      [] e = "insights" ->
            LET item == InsightItem(Id(AdIds[1]), k, 0)
            IN IF flawed THEN [f \in DOMAIN item \ {"ad_id"} |-> item[f]] ELSE item
      [] OTHER ->
            IF flawed THEN [name |-> Revision(k)]
            ELSE [id |-> Id("x"), name |-> Revision(k)]

Passes(e, item) ==
    CASE e = "campaigns" -> CampaignValid(item)
      [] e = "insights" -> InsightValid(Stamped(CoerceInsight(item), 0))
      [] OTHER -> TRUE

Event(op, page, what, n) == [op |-> op, page |-> page, what |-> what, n |-> n]

\* the validate_schema calls on the records of the pages in rows
Validations(e, rows) ==
    [i \in 1..Len(rows) |->
        Event("validate", rows[i],
              IF Passes(e, RecordOf(e, rows[i], rows[i] \in listing.flawed))
              THEN "passed" ELSE "failed", 0)]

Passed(e, rows) ==
    SelectSeq(rows, LAMBDA k : Passes(e, RecordOf(e, k, k \in listing.flawed)))

\* the events and the flag after the response is in hand
AfterResponse(e, evs, u) ==
    IF Sleeps(e)
    THEN [events |-> Append(evs, Event("sleep", url, "interval", RATE_LIMIT_INTERVAL)),
          unslept |-> FALSE]
    ELSE [events |-> evs, unslept |-> u]

WrapperLocalsGone ==
    /\ attempt' = 0
    /\ delay' = 0
    /\ slept' = <<>>
    /\ results' = <<>>
    /\ outcome' = "idle"
    /\ UNCHANGED RATE_LIMIT_INTERVAL

\* the function is left: by return with the list rows, or by an exception
Leave(raised, rows, evs, u) ==
    /\ x_pc' = IF raised THEN "raised" ELSE "returned"
    /\ all_rows' = rows
    /\ events' = evs
    /\ unslept' = u
    /\ url' = 0
    /\ UNCHANGED <<extractor, listing, answer, handed>>

\* an exception of the kind leaves the try block
Throw(kind, evs, u) == Leave(~Caught(extractor, kind), <<>>, evs, u)

\* raise_for_status() and the loop over the records of the page
Process(evs, u) ==
    IF answer # "ok" THEN Throw("http_error", evs, u)
    ELSE IF extractor = "campaigns"
    THEN Leave(FALSE, Passed(extractor, <<url>>),
               evs \o Validations(extractor, <<url>>), u)
    ELSE IF Paged(extractor) /\ url < listing.pages
    THEN /\ x_pc' = "request"
         /\ url' = url + 1
         /\ all_rows' = Append(all_rows, url)
         /\ events' = evs
         /\ unslept' = u
         /\ UNCHANGED <<extractor, listing, answer, handed>>
    ELSE Leave(FALSE, Append(all_rows, url), evs, u)

\* main() calls the fetch function of the step
StartExtractor ==
    /\ x_pc = "call"
    /\ \E n \in 1..MaxPages : \E flawed \in SUBSET (1..n) :
          listing' = [pages |-> n, flawed |-> flawed]
    /\ \E with_ads \in (IF extractor = "insights" THEN BOOLEAN ELSE {TRUE}) :
          x_pc' = IF with_ads THEN "request" ELSE "returned"
    /\ url' = 1
    /\ UNCHANGED <<extractor, answer, all_rows, handed, events, unslept>>
    /\ UNCHANGED <<tables, main_vars, wrapper, filter_io, pure_io>>

\* response = api_request_with_backoff(requests.get, ...)
CallWrapper ==
    /\ x_pc = "request"
    /\ extractor # "insights"
    /\ Call
    /\ x_pc' = "wrapper"
    /\ UNCHANGED <<extractor, listing, url, answer, all_rows, handed, events, unslept>>
    /\ UNCHANGED <<tables, main_vars, filter_io, pure_io>>

\* one pass of the wrapper's loop with requests.get as request_func, or the
\* end of the loop
RequestAttempt ==
    /\ x_pc = "wrapper"
    /\ outcome = "running"
    /\ IF attempt < max_retries
       THEN \E a \in Answers :
              /\ AttemptWith(requests_get(a))
              /\ answer' = a
              /\ events' = events \o <<Event("get", url, a, attempt + 1)>> \o
                           (IF RateLimited(requests_get(a))
                            THEN <<Event("sleep", url, "backoff", delay)>> ELSE <<>>)
              /\ unslept' = (a = "ok" \/ unslept)
       ELSE ReturnNone /\ UNCHANGED <<answer, events, unslept>>
    /\ UNCHANGED <<extractor, x_pc, listing, url, all_rows, handed>>
    /\ UNCHANGED <<tables, main_vars, filter_io, pure_io>>

\* the extractor goes on with what the wrapper returned or raised
Continue ==
    /\ x_pc = "wrapper"
    /\ outcome \notin {"idle", "running"}
    /\ WrapperLocalsGone
    /\ CASE outcome = "returned" ->
               LET after == AfterResponse(extractor, events, unslept)
               IN Process(after.events, after.unslept)
         [] outcome = "none" ->
               IF Paged(extractor) THEN Leave(FALSE, all_rows, events, unslept)
               ELSE Throw("attribute_error", events, unslept)
         [] outcome = "raised_http_error" -> Throw("http_error", events, unslept)
         [] OTHER -> Throw("connection_error", events, unslept)
    /\ UNCHANGED <<tables, main_vars, filter_io, pure_io>>

\* fetch_ad_insights: response = requests.get(url, params=params) and
\* raise_for_status() inside try/except Exception
DirectGet ==
    /\ x_pc = "request"
    /\ extractor = "insights"
    /\ \E a \in Answers :
          LET evs == Append(events, Event("get", url, a, 0))
              after == AfterResponse(extractor, evs, a = "ok" \/ unslept)
          IN /\ answer' = a
             /\ x_pc' = "returned"
             /\ all_rows' = IF a = "ok" THEN <<url>> ELSE <<>>
             /\ events' = after.events
             /\ unslept' = after.unslept
             /\ url' = 0
    /\ UNCHANGED <<extractor, listing, handed>>
    /\ UNCHANGED <<tables, main_vars, wrapper, filter_io, pure_io>>

\* main() passes the returned list on: to execute_values, in the last step
\* through the validate_schema loop of upsert_hourly_ad_insights
HandOver ==
    /\ x_pc = "returned"
    /\ x_pc' = "upserted"
    /\ IF extractor = "insights"
       THEN /\ handed' = Passed(extractor, all_rows)
            /\ events' = events \o Validations(extractor, all_rows)
       ELSE handed' = all_rows /\ UNCHANGED events
    /\ UNCHANGED <<extractor, listing, url, answer, all_rows, unslept>>
    /\ UNCHANGED <<tables, main_vars, wrapper, filter_io, pure_io>>

\* the step is over, by its last line or by its except branch
NextStep ==
    /\ x_pc \in {"upserted", "raised"}
    /\ LET next == NextPc(extractor, x_pc = "raised")
       IN IF next = "complete"
          THEN extractor' = "none" /\ x_pc' = "finished"
          ELSE extractor' = next /\ x_pc' = "call"
    /\ listing' = [pages |-> 0, flawed |-> {}]
    /\ url' = 0
    /\ answer' = "none"
    /\ all_rows' = <<>>
    /\ handed' = <<>>
    /\ events' = <<>>
    /\ UNCHANGED unslept
    /\ UNCHANGED <<tables, main_vars, wrapper, filter_io, pure_io>>

UpstreamInit ==
    /\ NoTables
    /\ account = {}
    /\ MainIdle
    /\ FilterIdle
    /\ PureIdle
    /\ RATE_LIMIT_INTERVAL \in 0..MaxInterval
    /\ attempt = 0
    /\ delay = 0
    /\ slept = <<>>
    /\ results = <<>>
    /\ outcome = "idle"
    /\ extractor = "campaigns"
    /\ x_pc = "call"
    /\ listing = [pages |-> 0, flawed |-> {}]
    /\ url = 0
    /\ answer = "none"
    /\ all_rows = <<>>
    /\ handed = <<>>
    /\ events = <<>>
    /\ unslept = FALSE

UpstreamNext ==
    \/ StartExtractor
    \/ CallWrapper
    \/ RequestAttempt
    \/ Continue
    \/ DirectGet
    \/ HandOver
    \/ NextStep

UpstreamSpec == UpstreamInit /\ [][UpstreamNext]_vars

\* ================================================================ properties

\* C1: in a run whose Ads step fetched the ads A and whose hourly-insight
\* step completed, the warehouse holds exactly one hourly snapshot row for
\* every ad of A in the current hour, the ads without fetched insight
\* included (their synthesized zero row passes validation and is written).
C1_OneHourlyRowPerFetchedAd ==
    [][(pc = "insights" /\ pc' = "complete" /\ status' = Fetched) =>
         \A a \in Range(main_ads) :
            Cardinality({r \in ad_insights_hourly_snapshots' :
                            r.ad_id = a.id /\ r.snapshot_hour = Hour(clock)}) = 1]_vars

\* C2: every ad-set row a step writes names a campaign_id, not null, that is
\* in the campaign table when the row is written; and so every persisted
\* ad-set row names a persisted campaign.
C2_AdsetsNameExistingCampaigns ==
    [][/\ \A r \in adsets' \ adsets :
             /\ r.campaign_id # None
             /\ r.campaign_id \in {c.campaign_id : c \in dim_campaign}
       /\ \A r \in adsets' :
             r.campaign_id \in {c.campaign_id : c \in dim_campaign'}]_vars

C2_AdsetWrittenUnderCampaign ==
    /\ pc = "ads"
    /\ \E r \in adsets : r.name = Revision(runs) /\ r.campaign_id = Id("c1")

\* C3: a connected run starts its seven steps in the fixed order whatever
\* steps failed before: the steps started so far are exactly those before
\* the current one, the next step can always be taken, completion is
\* logged only after all seven, and after a failed ad-set bulk write the
\* Ads step can still fetch and upsert its rows.
C3_EveryStepAttemptedInOrder ==
    /\ pc \in Range(StepOrder) =>
          /\ steplog = SubSeq(StepOrder, 1, IndexOf(pc) - 1)
          /\ ENABLED (\/ CampaignStep \/ ActivityStep \/ RegionwiseStep
                      \/ AdCreativesStep \/ AdSetsStep \/ AdsStep \/ InsightsStep)
    /\ pc = "complete" => steplog = StepOrder /\ ENABLED Complete
    /\ status = "completed" => steplog = Append(StepOrder, "attempted") /\ pc = "idle"
    /\ (pc = "ads" /\ status = UpsertFailed /\ AccountAds # <<>>) =>
          ENABLED (AdsStep /\ status' = Fetched /\ ads' # ads /\ main_ads' # <<>>)

C3_AdsetWriteFailedRunGoesOn ==
    /\ pc = "ads"
    /\ status = UpsertFailed
    /\ AccountAds # <<>>
    /\ steplog = SubSeq(StepOrder, 1, 5)

\* C4: a bulk write leaves at most one row per natural key in every table,
\* and every row it inserted or updated holds the values of that call: the
\* payload of the current fetch and, for an hourly snapshot, the ad set the
\* current fetch reported.
C4_OneRowPerKeyWithLatestValues ==
    [][/\ \A r1, r2 \in dim_campaign' : r1.campaign_id = r2.campaign_id => r1 = r2
       /\ \A r1, r2 \in ads' : KeyOf("ads", r1) = KeyOf("ads", r2) => r1 = r2
       /\ \A r1, r2 \in ad_account_activity_history' :
             KeyOf("ad_account_activity_history", r1)
                 = KeyOf("ad_account_activity_history", r2) => r1 = r2
       /\ \A r1, r2 \in ad_insights_hourly_snapshots' :
             KeyOf("ad_insights_hourly_snapshots", r1)
                 = KeyOf("ad_insights_hourly_snapshots", r2) => r1 = r2
       /\ \A r \in ads' \ ads :
             r.name = Revision(runs) /\ r.adset_id = AdsetOf(Revision(runs))
       /\ \A r \in ad_account_activity_history' \ ad_account_activity_history :
             r.object_name = Revision(runs)
       /\ \A r \in ad_insights_hourly_snapshots' \ ad_insights_hourly_snapshots :
             /\ r.metrics["clicks"] = runs
             /\ r.adset_id = AdsetOf(Revision(runs))]_vars

\* C5: a step whose bulk write failed leaves every table as it was before
\* the step: no row of the failed batch is visible.
C5_FailedBulkWriteLeavesNoRow ==
    [][(pc' # pc /\ status' = UpsertFailed) => tables' = tables]_vars

\* C6: the wrapper makes at most 5 attempts; the k-th sleep lasts the
\* configured interval doubled k-1 times, so the sleeps strictly increase
\* for a positive interval; while it is retrying every attempt so far was
\* rate limited and slept; and it returns None exactly after the fifth
\* rate-limited attempt, without raising.
C6_FiveAttemptsDoublingDelays ==
    /\ attempt <= max_retries
    /\ Len(slept) <= attempt
    /\ \A i \in 1..Len(slept) : slept[i] = RATE_LIMIT_INTERVAL * 2 ^ (i - 1)
    /\ RATE_LIMIT_INTERVAL > 0 => \A i \in 1..(Len(slept) - 1) : slept[i] < slept[i + 1]
    /\ outcome = "running" => Len(slept) = attempt
    /\ outcome = "none" => attempt = max_retries /\ Len(slept) = max_retries
    /\ Len(slept) = max_retries => outcome \in {"running", "none"}
    /\ (outcome = "running" /\ Len(slept) = max_retries) =>
          /\ ENABLED WrapperReturnNone
          /\ ~ENABLED WrapperAttempt

C6_NoneAfterFiveRateLimits ==
    /\ outcome = "none"
    /\ RATE_LIMIT_INTERVAL = 2
    /\ slept = <<2, 4, 8, 16, 32>>

\* C7: a run that could not reach the warehouse, at schema provisioning or
\* at its own connection, ran no step and was answered with the failure
\* status 500.
C7_UnreachableWarehouseReportedFailed ==
    (pc = "idle" /\ status \in {"setup_failed", "connect_failed"}) =>
        steplog = <<>> /\ response = 500

\* C8: every row written during the current run, by any step, carries the
\* hour of the run's start.
C8_RowsCarryHourOfRunStart ==
    /\ \A r \in dim_campaign :
          r.campaign_name = Revision(runs) => r.hour = Hour(run_started)
    /\ \A r \in ad_account_activity_history :
          r.object_name = Revision(runs) => r.hour = Hour(run_started)
    /\ \A r \in ad_insights_regionwise :
          r.impressions = Revision(runs) => r.hour = Hour(run_started)
    /\ \A r \in ad_creatives \cup adsets \cup ads :
          r.name = Revision(runs) => r.hour = Hour(run_started)
    /\ \A r \in ad_insights_hourly_snapshots :
          r.metrics["clicks"] = runs => r.snapshot_hour = Hour(run_started)

\* C9: a row that exists before a step exists after it under the same
\* natural key and with the same creation timestamp.
C9_CreationTimestampWriteOnce ==
    [][/\ \A old \in dim_campaign : \E new \in dim_campaign' :
             new.campaign_id = old.campaign_id /\ new.created_at = old.created_at
       /\ \A old \in ad_insights_hourly_snapshots :
             \E new \in ad_insights_hourly_snapshots' :
                /\ KeyOf("ad_insights_hourly_snapshots", new)
                       = KeyOf("ad_insights_hourly_snapshots", old)
                /\ new.created_at = old.created_at]_vars

\* C10: the filter returns exactly the rows of its batch whose campaign_id
\* is a persisted campaign key, each unchanged and in the order of the
\* batch, and drops exactly the others; the empty batch gives the empty
\* list.
C10_FilterPartitionsBatch ==
    pc = "filtered" =>
        LET keep == {i \in 1..Len(filter_adsets) :
                        filter_adsets[i].campaign_id
                            \in {c.campaign_id : c \in dim_campaign}}
        IN /\ Len(filter_result) = Cardinality(keep)
           /\ \E f \in [1..Len(filter_result) -> keep] :
                 /\ \A i, j \in 1..Len(filter_result) : i < j => f[i] < f[j]
                 /\ \A i \in 1..Len(filter_result) :
                       filter_result[i] = filter_adsets[f[i]]
           /\ filter_adsets = <<>> => filter_result = <<>>

C10_MixedBatchFiltered ==
    /\ pc = "filtered"
    /\ Len(filter_adsets) = 3
    /\ Len(filter_result) = 2
    /\ filter_adsets[2].campaign_id \in {Id("c9"), None}

\* C11: a required field absent from the record is listed exactly once
\* under 'required' and under no other category, whatever its type; the
\* 'required' list names nothing else, so a record with every required
\* field present has no 'required' entry.
C11_MissingRequiredReportedOnce ==
    pc = "validated" =>
        /\ \A f \in Range(ValidatorFields) :
              IF v_schema[f].required /\ f \notin DOMAIN v_data
              THEN /\ Cardinality({i \in 1..Len(v_errors.required) :
                                      v_errors.required[i] = f}) = 1
                   /\ f \notin Range(v_errors.type)
                   /\ f \notin Range(v_errors.format)
              ELSE f \notin Range(v_errors.required)
        /\ (\A f \in Range(ValidatorFields) : v_schema[f].required => f \in DOMAIN v_data)
              => v_errors.required = <<>>

C11_BothRequiredMissing ==
    /\ pc = "validated"
    /\ v_data = <<>>
    /\ v_schema["a"].required
    /\ v_schema["a"].type = "integer"
    /\ v_errors.required = <<"a", "b">>

\* C12 as stated: a string-typed field holding a date or a datetime has no
\* type and no format error; one holding anything that is neither a string
\* nor date-like has a type error.
C12_NonStringAlwaysTypeError ==
    pc = "validated" =>
        \A f \in DOMAIN v_data :
            v_schema[f].type = "string" =>
                /\ v_data[f].t \in {"date", "datetime"} =>
                      f \notin Range(v_errors.type) /\ f \notin Range(v_errors.format)
                /\ v_data[f].t \notin {"str", "date", "datetime"} =>
                      f \in Range(v_errors.type)

\* C12 amended: a string-typed field holding a date or a datetime has no
\* type and no format error; one holding anything that is neither a string
\* nor date-like has a type error, except None in a nullable field, which
\* has no error at all.
C12_DateLikeAcceptedAsString ==
    pc = "validated" =>
        \A f \in DOMAIN v_data :
            v_schema[f].type = "string" =>
                /\ v_data[f].t \in {"date", "datetime"} =>
                      f \notin Range(v_errors.type) /\ f \notin Range(v_errors.format)
                /\ v_data[f].t \notin {"str", "date", "datetime"} =>
                      IF v_data[f].t = "none" /\ v_schema[f].nullable
                      THEN f \notin Range(v_errors.type) /\ f \notin Range(v_errors.format)
                      ELSE f \in Range(v_errors.type)

C12_DatetimeObjectInDatetimeField ==
    /\ pc = "validated"
    /\ "a" \in DOMAIN v_data
    /\ v_data["a"].t = "datetime"
    /\ v_schema["a"] = Field("string", TRUE, FALSE, "datetime")
    /\ "b" \in DOMAIN v_data
    /\ v_data["b"].t = "int"
    /\ v_errors.type = <<"b">>

\* C13: both normalizers return the same value; for a string ending in
\* 'Z' the string with 'Z' replaced by '+00:00'; for a string ending in a
\* sign and four digits the string with a colon before the last two
\* digits; and every other value unchanged.
C13_NormalizersInsertColon ==
    pc = "normalized" =>
        LET n == Len(dt_str.s)
            offset == /\ n >= 5
                      /\ dt_str.s[n - 4] \in {"+", "-"}
                      /\ \A i \in 0..3 : dt_str.s[n - i] \in Digits
            expected ==
                IF dt_str.t # "str" THEN dt_str
                ELSE IF n >= 1 /\ dt_str.s[n] = "Z"
                THEN PyStr(SubSeq(dt_str.s, 1, n - 1) \o <<"+", "0", "0", ":", "0", "0">>)
                ELSE IF offset
                THEN PyStr(SubSeq(dt_str.s, 1, n - 2) \o <<":">>
                           \o SubSeq(dt_str.s, n - 1, n))
                ELSE dt_str
        IN dt_campaign = expected /\ dt_activity = expected

\* C15: an attempt on which request_func raises anything but the rate-limit
\* error (an HTTPError with another or no readable code, another exception)
\* is the last one of the call, on whichever attempt it occurs: the error is
\* raised to the caller, only the rate-limited attempts before it slept, and
\* nothing further can run.
C15_OtherErrorsPropagateAtOnce ==
    \A i \in 1..Len(results) :
        results[i] \in {"code_other", "code_unreadable", "exception"} =>
            /\ i = Len(results)
            /\ attempt = i
            /\ outcome = (IF results[i] = "exception" THEN "raised_exception"
                          ELSE "raised_http_error")
            /\ Len(slept) = i - 1
            /\ \A j \in 1..(i - 1) : results[j] = "code_80004"
            /\ ~ENABLED WrapperAttempt
            /\ ~ENABLED WrapperReturnNone

C15_UnreadableCodeOnThirdAttempt ==
    /\ results = <<"code_80004", "code_80004", "code_unreadable">>
    /\ outcome = "raised_http_error"
    /\ RATE_LIMIT_INTERVAL = 1
    /\ slept = <<1, 2>>

\* C20: a step of main() changes no table but its own, so the rows the
\* earlier steps of the run committed stay as they are whether the step
\* succeeds, fails to extract or fails to write; and no transition of the
\* job removes a row: every key a table holds it still holds afterwards, in
\* at least as many rows.
C20_LaterStepsLeaveCommittedRows ==
    [][/\ \A s \in Range(StepOrder) : pc # s => Contents'[s] = Contents[s]
       /\ \A i \in 1..Len(StepOrder) :
             LET before == Contents[StepOrder[i]]
                 after == Contents'[StepOrder[i]]
             IN /\ {KeyOf(Tables[i], r) : r \in before}
                      \subseteq {KeyOf(Tables[i], r) : r \in after}
                /\ Cardinality(before) <= Cardinality(after)]_vars

C20_AdsetStepFailedAfterCampaignsCommitted ==
    /\ runs = 1
    /\ pc = "ads"
    /\ status = FetchFailed
    /\ dim_campaign # {}

\* C14: in every extractor a GET answered with the rate-limit error is
\* followed by a backoff sleep and, below the ceiling of 5 attempts, by
\* another GET of the same page; the extractor returns or raises after a
\* rate-limited GET only when that GET was the fifth attempt.
C14_RateLimitedRequestsRetried ==
    \A i \in 1..Len(events) :
        (events[i].op = "get" /\ events[i].what = "rate_limited") =>
            /\ i < Len(events)
            /\ events[i + 1].op = "sleep" /\ events[i + 1].what = "backoff"
            /\ (events[i].n < max_retries /\ x_pc # "wrapper") =>
                  /\ i + 2 <= Len(events)
                  /\ events[i + 2].op = "get"
                  /\ events[i + 2].page = events[i].page
                  /\ events[i + 2].n = events[i].n + 1

\* C17: every GET of every extractor is made through the backoff wrapper,
\* and an extractor that returns after 2xx answers only has requested every
\* page of the listing, each page after the one whose response named it,
\* and holds the rows of all of them.
C17_AllPagesThroughWrapper ==
    LET gets == {i \in 1..Len(events) : events[i].op = "get"}
    IN /\ \A i \in gets : events[i].n >= 1
       /\ (x_pc = "returned" /\ gets # {} /\ \A i \in gets : events[i].what = "ok") =>
             /\ {events[i].page : i \in gets} = 1..listing.pages
             /\ \A i, j \in gets : i < j => events[i].page < events[j].page
             /\ ~Validates(extractor) => Range(all_rows) = 1..listing.pages

\* C18: every row passed to execute_values comes from a record on which
\* validate_schema was called and reported no error.
C18_HandedRowsPassedValidation ==
    x_pc = "upserted" =>
        \A k \in Range(handed) :
            \E i \in 1..Len(events) :
                /\ events[i].op = "validate"
                /\ events[i].page = k
                /\ events[i].what = "passed"

\* C19: whenever a GET can be issued next, by the extractor running or by
\* the one main() calls next, a time.sleep of the configured interval has
\* been taken since the last 2xx response; and between a 2xx response and
\* the next GET of the same extractor lies a sleep, not a backoff sleep, of
\* at least the configured interval.
C19_IntervalSleptBeforeNextRequest ==
    /\ (\/ x_pc \in {"call", "request"}
        \/ x_pc = "wrapper" /\ outcome = "running" /\ attempt < max_retries)
          => ~unslept
    /\ \A i, j \in 1..Len(events) :
          (/\ i < j
           /\ events[i].op = "get" /\ events[i].what = "ok"
           /\ events[j].op = "get") =>
              \E k \in (i + 1)..(j - 1) :
                  /\ events[k].op = "sleep"
                  /\ events[k].what = "interval"
                  /\ events[k].n >= RATE_LIMIT_INTERVAL

C19_SecondPageRequestedAfterSleep ==
    /\ extractor = "ads"
    /\ x_pc = "wrapper"
    /\ RATE_LIMIT_INTERVAL = 2
    /\ Len(events) = 3
    /\ events[1] = Event("get", 1, "ok", 1)
    /\ events[2] = Event("sleep", 1, "interval", 2)
    /\ events[3].op = "get" /\ events[3].page = 2

C24_NullCheckedUnlessNullable ==
    pc = "validated" =>
        \A f \in DOMAIN v_data :
            v_data[f] = None =>
                /\ f \notin Range(v_errors.required)
                /\ f \notin Range(v_errors.format)
                /\ IF ~v_schema[f].nullable /\ v_schema[f].type \in {"string", "array"}
                   THEN Cardinality({i \in 1..Len(v_errors.type) :
                                        v_errors.type[i] = f}) = 1
                   ELSE f \notin Range(v_errors.type)

C24_NullInPlainNumberAndStringFields ==
    /\ pc = "validated"
    /\ v_data = [a |-> None, b |-> None]
    /\ v_schema["a"] = Field("number", TRUE, FALSE, "")
    /\ v_schema["b"] = Field("string", TRUE, FALSE, "")
    /\ v_errors.type = <<"b">>

\* C21: each of the seven generated ratios is a number, 0 when its
\* denominator column is 0 or negative, and otherwise the quotient of its
\* two columns (times 100 for the four rates): roas = purchase_value/spend,
\* calc_ctr = clicks/impressions x 100, calc_cpp = spend/purchase,
\* calc_cpr = spend/reach, hook_rate = page_engagement/impressions x 100,
\* hold_rate = video_view/page_engagement x 100,
\* conversion_rate = purchase/landing_page_view x 100.
C21_RatiosGuardedAgainstDenominator ==
    pc = "stored" =>
        LET Is(q, n, d) ==
                /\ q.den # 0
                /\ IF d <= 0 THEN q.num = 0 ELSE q.num * d = n * q.den
            r == snapshot
            g == generated
        IN /\ Is(g.roas, r.purchase_value, r.spend)
           /\ Is(g.calc_ctr, r.clicks * 100, r.impressions)
           /\ Is(g.calc_cpp, r.spend, r.purchase)
           /\ Is(g.calc_cpr, r.spend, r.reach)
           /\ Is(g.hook_rate, r.page_engagement * 100, r.impressions)
           /\ Is(g.hold_rate, r.video_view * 100, r.page_engagement)
           /\ Is(g.conversion_rate, r.purchase * 100, r.landing_page_view)

C21_NoSpendWithPurchaseValue ==
    /\ pc = "stored"
    /\ snapshot.spend = 0
    /\ snapshot.purchase_value = 1
    /\ snapshot.impressions = -1
    /\ snapshot.clicks = 1
    /\ snapshot.reach = 1
    /\ generated.roas = Zero
    /\ generated.calc_ctr = Zero
    /\ generated.calc_cpr = Quotient(0, 1)

\* C22: in every table, a row whose natural key was already there and that a
\* bulk write changed holds the newly fetched values in its other columns:
\* the name, status or count of the current fetch and, for an ad or an hourly
\* snapshot, the ad set the current fetch reported.
C22_ExistingKeyTakesFetchedValues ==
    [][LET Updated(tbl, T, Tn) ==
               {r \in Tn \ T : \E old \in T : KeyOf(tbl, old) = KeyOf(tbl, r)}
       IN /\ \A r \in Updated("dim_campaign", dim_campaign, dim_campaign') :
                r.campaign_name = Revision(runs) /\ r.hour = Hour(clock)
          /\ \A r \in Updated("ad_account_activity_history",
                              ad_account_activity_history, ad_account_activity_history') :
                r.object_name = Revision(runs)
          /\ \A r \in Updated("ad_insights_regionwise",
                              ad_insights_regionwise, ad_insights_regionwise') :
                r.impressions = Revision(runs)
          /\ \A r \in Updated("ad_creatives", ad_creatives, ad_creatives') :
                r.name = Revision(runs)
          /\ \A r \in Updated("adsets", adsets, adsets') : r.name = Revision(runs)
          /\ \A r \in Updated("ads", ads, ads') :
                r.name = Revision(runs) /\ r.adset_id = AdsetOf(Revision(runs))
          /\ \A r \in Updated("ad_insights_hourly_snapshots",
                              ad_insights_hourly_snapshots, ad_insights_hourly_snapshots') :
                r.adset_id = AdsetOf(Revision(runs))]_vars

\* C23: after the insights step on an answer of two records, the step has
\* not failed; a record whose clicks or spend cannot be converted (a word, a
\* list, a number beyond the range) has no row, and every other record has
\* its row, with 0 for a numeric field that was empty, null or not sent and
\* the sent number otherwise.
C23_IllFormedRecordDroppedAlone ==
    pc = "complete" =>
        /\ status = Fetched
        /\ \A i \in 1..Len(insight_data) :
              LET rec == insight_data[i]
                  Blank(f) == f \notin DOMAIN rec \/ rec[f] \in {PyStr(<<>>), None}
                  Number(f) == rec[f].t = "str" /\ rec[f].s = <<"#">>
                  rows == {r \in ad_insights_hourly_snapshots : r.ad_id = rec.ad_id}
              IN IF \A f \in CoercedFields : Blank(f) \/ Number(f)
                 THEN \E r \in rows :
                         \A f \in CoercedFields :
                             r.metrics[f] = IF Blank(f) THEN 0 ELSE rec[f].n
                 ELSE rows = {}

\* C25: when the Ads step has failed, in its fetch or in its bulk write, the
\* insights step that follows has no ad to work on: whatever the API holds
\* for the account's ads, fetch_ad_insights returns [] without asking, no
\* default row is made, the hourly table stays as it is, and the step ends
\* as completed.
C25_FailedAdsStepLeavesNothingForInsights ==
    [][(pc = "insights" /\ pc' # pc /\ status \in {FetchFailed, UpsertFailed}) =>
          /\ main_ads = <<>>
          /\ fetch_ad_insights([i \in 1..Len(main_ads) |-> main_ads[i].id],
                               Answer(<<InsightItem(Id(AdIds[1]), runs, Day(clock))>>)) = <<>>
          /\ MissingOrders(main_ads, <<>>) = {<<>>}
          /\ ad_insights_hourly_snapshots' = ad_insights_hourly_snapshots
          /\ status' = Fetched
          /\ pc' = "complete"]_vars

C25_BulkWriteOfAdsFailedAfterFetch ==
    /\ pc = "insights"
    /\ status = UpsertFailed
    /\ Has("ads") /\ Has("insights")
    /\ ads # {}
    /\ main_ads = <<>>
    /\ ENABLED InsightsStep

====
